---- MODULE Spec2Model ----
(***************************************************************************)
(* The panorama gallery of src/src/App.js: scene catalogue, URL routing,   *)
(* and the camera controller (field-of-view zoom by wheel, pinch and       *)
(* buttons, quaternion rotation, revert).                                  *)
(*                                                                         *)
(* src/src/App.js holds two builds of the application one after the other. *)
(* "responsive" is lines 1-372 (four scenes, viewport dependent default    *)
(* field of view, wheel and pinch zoom with sensitivity 0.15); "fixed" is  *)
(* lines 373-648 (two scenes, one default field of view, wheel zoom with   *)
(* sensitivity 0.05, no touch handlers).  The variable build says which    *)
(* one runs.                                                               *)
(*                                                                         *)
(* Number representation.  Fields of view are whole degrees: the inputs    *)
(* are drawn so that every product with the sensitivity is a whole number, *)
(* hence no floating rounding is modelled.  Positions are counted in       *)
(* tenths (INITIAL_CAMERA_POSITION [0, 0, 0.1] is <<0, 0, 1>>).  Angles    *)
(* are counted in quarter turns, the rotations that are exact over the     *)
(* integers; a quaternion <<x, y, z, w>> stands for the unit quaternion    *)
(* obtained by dividing it by its length, and applyQuaternion divides by   *)
(* the squared length where three.js relies on the length being one.       *)
(***************************************************************************)
EXTENDS Integers, Sequences, FiniteSets, TLC

VARIABLES
    build,                \* which of the two builds of App.js runs
    innerWidth,           \* window.innerWidth
    pathname,             \* window.location.pathname, as its pieces between "/"
    historyLength,        \* window.history.length
    pageLoads,            \* documents loaded by the browser so far
    navCount,             \* selectItem / goHome calls so far
    selected,             \* App state `selected`: a scene descriptor or null
    fov,                  \* App state `fov` (responsive build)
    camera,               \* the canvas camera: [fov, position] or null
    controls,             \* the OrbitControls object: [target] or null
    controlsRef,          \* controlsRef.current is set
    initialTouchDistance, \* initialTouchDistance.current
    wheelListeners,       \* handleWheel listeners on window
    touchListeners,       \* touchstart/touchmove/touchend listeners on the container
    lastOp,               \* the handler that ran last ("remount": a mount after
                          \* an earlier viewer's camera)
    lastTouches           \* e.touches of the last touch event: the points now down

vars == <<build, innerWidth, pathname, historyLength, pageLoads, navCount,
          selected, fov, camera, controls, controlsRef, initialTouchDistance,
          wheelListeners, touchListeners, lastOp, lastTouches>>

----------------------------------------------------------------------------
\* Bounds of the model

\* navigations (selectItem, goHome) explored per run of Spec
MaxNav == 2

\* navigations explored per run of SpecRouter
MaxRouterNav == 4

\* gallery cards clicked in Spec: the first MaxCard scenes of the build
MaxCard == 1

\* history entries present when the page loads
InitialHistoryLength == 1

Builds == {"responsive", "fixed"}

\* viewport widths on both sides of the 640 breakpoint
Widths == {639, 640}

\* e.deltaY of the wheel events delivered
WheelDeltas == {-1000, -100, 100, 1000}

\* touch points; P0-P1 are 500 apart, P1-P2 are 400 apart
P0 == [clientX |-> 0, clientY |-> 0]
P1 == [clientX |-> 300, clientY |-> 400]
P2 == [clientX |-> 300, clientY |-> 0]

\* e.touches of the touch events delivered: none (after the last point is
\* lifted), one, two or three points
TouchLists == { <<>>, <<P0>>, <<P0, P1>>, <<P2, P1>>, <<P0, P1, P2>> }

\* angles, in quarter turns
Angles == -2..2

\* ids looked up: every known id of either build and two unknown ones
CandidateIds ==
    { "aurora", "mountains", "tropical_sea", "underwater_ruins", "canyon",
      "unknown_scene", "not_a_scene" }

----------------------------------------------------------------------------
\* Constants of the program

null == [null |-> TRUE]

SCENES(b) ==
    IF b = "responsive"
    THEN <<"aurora", "mountains", "tropical_sea", "underwater_ruins">>
    ELSE <<"aurora", "canyon">>

DESKTOP_FOV == 70
MOBILE_FOV == 85
DEFAULT_FOV == 60
INITIAL_CAMERA_POSITION == <<0, 0, 1>>
INITIAL_TARGET == <<0, 0, 0>>

\* initialTouchDistance.current = null
NoDistance == -1

----------------------------------------------------------------------------
\* Scene catalogue

Range(s) == { s[i] : i \in 1..Len(s) }

\* `/scenes/${id}/<file>` as its pieces between "/"
ScenePath(id, file) == <<"", "scenes", id, file>>

makeScene(id) ==
    [ id     |-> id,
      layout |-> ScenePath(id, "layout.png"),
      faces  |-> [ right  |-> ScenePath(id, "right.png"),
                   left   |-> ScenePath(id, "left.png"),
                   top    |-> ScenePath(id, "top.png"),
                   bottom |-> ScenePath(id, "bottom.png"),
                   front  |-> ScenePath(id, "front.png"),
                   back   |-> ScenePath(id, "back.png") ] ]

\* findItemById without the SCENES.includes test
findItemByIdNoTest(b, id) == makeScene(id)

findItemById(b, id) ==
    IF id \in Range(SCENES(b)) THEN makeScene(id) ELSE null

----------------------------------------------------------------------------
\* Router

\* PathParts without filter(Boolean)
PathPartsNoFilter(path) == path

\* pathname.split("/").filter(Boolean)
PathParts(path) == SelectSeq(path, LAMBDA s : s # "")

\* the URL-based scene loading effect: the new value of `selected`
loadScene(b, path, sel) ==
    LET parts == PathParts(path) IN
    IF Len(parts) >= 2 /\ parts[1] = "viewer"
    THEN LET loaded == findItemById(b, parts[2]) IN
         IF loaded # null THEN loaded ELSE sel
    ELSE sel

\* `/viewer/${item.id}` as its pieces between "/"
ViewerUrl(item) == <<"", "viewer", item.id>>

\* `/`
RootUrl == <<"", "">>

\* window.history.pushState({}, "", url): a new entry, no document load
pushState(h, url) ==
    [ pathname |-> url, length |-> h.length + 1, pageLoads |-> h.pageLoads ]

History == [ pathname |-> pathname, length |-> historyLength, pageLoads |-> pageLoads ]

selectItem(item, h) == [ selected |-> item, history |-> pushState(h, ViewerUrl(item)) ]

\* goHome without its pushState
goHomeNoPush(h) == [ selected |-> null, history |-> h ]

goHome(h) == [ selected |-> null, history |-> pushState(h, RootUrl) ]

----------------------------------------------------------------------------
\* Zoom: wheel, pinch, buttons

Min(a, b) == IF a < b THEN a ELSE b
Max(a, b) == IF a > b THEN a ELSE b

\* clampFov without its lower bound
clampFovNoMin(f) == Min(f, 100)

\* clampFov without its upper bound
clampFovNoMax(f) == Max(f, 30)

\* Math.min(Math.max(f, 30), 100)
clampFov(f) == Min(Max(f, 30), 100)

\* x * ZOOM_SENSITIVITY (0.15), x * 0.05 in the fixed build
timesSensitivity(b, x) ==
    IF b = "responsive" THEN (x * 15) \div 100 ELSE (x * 5) \div 100

\* Math.sqrt, on the perfect squares the touch points give: the r in lo..hi
\* with r * r = n, by bisection (mid * mid >= n, written without the product)
RECURSIVE sqrtIn(_, _, _)
sqrtIn(lo, hi, n) ==
    IF lo >= hi THEN lo
    ELSE LET mid == (lo + hi) \div 2 IN
         IF mid > 0 /\ mid >= (n + mid - 1) \div mid
         THEN sqrtIn(lo, mid, n)
         ELSE sqrtIn(mid + 1, hi, n)

sqrt(n) == sqrtIn(0, n, n)

getDistance(touches) ==
    LET dx == touches[1].clientX - touches[2].clientX
        dy == touches[1].clientY - touches[2].clientY
    IN  sqrt(dx * dx + dy * dy)

\* the new initialTouchDistance.current
handleTouchStart(touches) ==
    IF Len(touches) = 2 THEN getDistance(touches) ELSE NoDistance

\* handleTouchMove without the initialTouchDistance.current !== null test
\* (null counts as 0 in the subtraction)
handleTouchMoveNoNullTest(b, touches, cam, itd) ==
    IF Len(touches) = 2
    THEN LET currentDistance == getDistance(touches)
             recorded        == IF itd = NoDistance THEN 0 ELSE itd
             zoomFactor      == timesSensitivity(b, recorded - currentDistance)
         IN  [ camera |-> [cam EXCEPT !.fov = clampFov(@ + zoomFactor)],
               initialTouchDistance |-> currentDistance ]
    ELSE [ camera |-> cam, initialTouchDistance |-> itd ]

\* handleTouchMove that keeps the distance recorded at touchstart
handleTouchMoveAbsolute(b, touches, cam, itd) ==
    IF Len(touches) = 2 /\ itd # NoDistance
    THEN [ camera |-> [cam EXCEPT !.fov =
                          clampFov(@ + timesSensitivity(b, itd - getDistance(touches)))],
           initialTouchDistance |-> itd ]
    ELSE [ camera |-> cam, initialTouchDistance |-> itd ]

\* the new camera and initialTouchDistance.current
handleTouchMove(b, touches, cam, itd) ==
    IF Len(touches) = 2 /\ itd # NoDistance
    THEN LET currentDistance == getDistance(touches)
             deltaDistance   == itd - currentDistance
             zoomFactor      == timesSensitivity(b, deltaDistance)
         IN  [ camera |-> [cam EXCEPT !.fov = clampFov(@ + zoomFactor)],
               initialTouchDistance |-> currentDistance ]
    ELSE [ camera |-> cam, initialTouchDistance |-> itd ]

\* handleTouchEnd that leaves the recorded distance
handleTouchEndKeep(itd) == itd

\* the new initialTouchDistance.current
handleTouchEnd(itd) == NoDistance

\* the new camera
handleWheel(b, deltaY, cam) ==
    [cam EXCEPT !.fov = clampFov(@ + timesSensitivity(b, deltaY))]

\* zoom without the controlsRef.current guard
zoomUnguarded(factor, ref, cam) ==
    IF cam = null THEN cam ELSE [cam EXCEPT !.fov = clampFov(@ + factor)]

\* zoom that moves the camera along its axis instead of changing the field of view
zoomDolly(factor, ref, cam) ==
    IF ~ref THEN cam
    ELSE [cam EXCEPT !.position = <<@[1], @[2], @[3] + factor>>]

\* ArrowControls.zoom: the new camera
zoom(factor, ref, cam) ==
    IF ~ref THEN cam
    ELSE [cam EXCEPT !.fov = clampFov(@ + factor)]

----------------------------------------------------------------------------
\* Rotation

\* cos and sin of k eighths of a turn, both times the same positive factor
\* (1 when k is even, the square root of 2 when k is odd)
HalfCos(k) == <<1, 1, 0, -1, -1, -1, 0, 1>>[(k % 8) + 1]
HalfSin(k) == <<0, 1, 1, 1, 0, -1, -1, -1>>[(k % 8) + 1]

\* Quaternion.setFromAxisAngle(axis, angle): halfAngle = angle / 2,
\* (axis * sin(halfAngle), cos(halfAngle)); angle in quarter turns
setFromAxisAngle(axis, angle) ==
    <<axis[1] * HalfSin(angle), axis[2] * HalfSin(angle),
      axis[3] * HalfSin(angle), HalfCos(angle)>>

\* Quaternion.multiply(q): this * q
multiply(a, b) ==
    << a[1] * b[4] + a[4] * b[1] + a[2] * b[3] - a[3] * b[2],
       a[2] * b[4] + a[4] * b[2] + a[3] * b[1] - a[1] * b[3],
       a[3] * b[4] + a[4] * b[3] + a[1] * b[2] - a[2] * b[1],
       a[4] * b[4] - a[1] * b[1] - a[2] * b[2] - a[3] * b[3] >>

LengthSq(q) == q[1] * q[1] + q[2] * q[2] + q[3] * q[3] + q[4] * q[4]

\* Vector3.applyQuaternion(q): t = 2 * cross(q.xyz, v);
\* v + q.w * t + cross(q.xyz, t)
applyQuaternion(v, q) ==
    LET n  == LengthSq(q)
        tx == 2 * (q[2] * v[3] - q[3] * v[2])
        ty == 2 * (q[3] * v[1] - q[1] * v[3])
        tz == 2 * (q[1] * v[2] - q[2] * v[1])
    IN  << v[1] + (q[4] * tx + q[2] * tz - q[3] * ty) \div n,
           v[2] + (q[4] * ty + q[3] * tx - q[1] * tz) \div n,
           v[3] + (q[4] * tz + q[1] * ty - q[2] * tx) \div n >>

sub(v, w) == <<v[1] - w[1], v[2] - w[2], v[3] - w[3]>>
add(v, w) == <<v[1] + w[1], v[2] + w[2], v[3] + w[3]>>

\* rotatePosition with the product taken in the other order
rotatePositionPitchFirst(angleX, angleY, position, target) ==
    LET quaternionX == setFromAxisAngle(<<0, 1, 0>>, angleX)
        quaternionY == setFromAxisAngle(<<1, 0, 0>>, angleY)
        quaternion  == multiply(quaternionY, quaternionX)
    IN  add(applyQuaternion(sub(position, target), quaternion), target)

\* rotatePosition with angleX passed for both axes
rotatePositionSameAngle(angleX, angleY, position, target) ==
    LET quaternionX == setFromAxisAngle(<<0, 1, 0>>, angleX)
        quaternionY == setFromAxisAngle(<<1, 0, 0>>, angleX)
        quaternion  == multiply(quaternionX, quaternionY)
    IN  add(applyQuaternion(sub(position, target), quaternion), target)

\* the position rotate leaves the camera at
rotatePosition(angleX, angleY, position, target) ==
    LET quaternionX == setFromAxisAngle(<<0, 1, 0>>, angleX)
        quaternionY == setFromAxisAngle(<<1, 0, 0>>, angleY)
        quaternion  == multiply(quaternionX, quaternionY)
    IN  add(applyQuaternion(sub(position, target), quaternion), target)

\* ArrowControls.rotate: the new camera.  camera.lookAt(target) sets the
\* orientation from position and target, so the orientation is not a state of
\* its own.  controls.update() is the library's: it keeps the target and the
\* distance to it; the auto-rotation step it adds about the up axis
\* (autoRotate, line 326) is not modelled.
rotate(angleX, angleY, ref, cam, ctl) ==
    IF ~ref THEN cam
    ELSE [cam EXCEPT !.position = rotatePosition(angleX, angleY, @, ctl.target)]

\* defaultFov with the breakpoint itself counted as narrow
defaultFovInclusive(b, width) ==
    IF b = "responsive"
    THEN IF width <= 640 THEN MOBILE_FOV ELSE DESKTOP_FOV
    ELSE DEFAULT_FOV

\* the default field of view revertView sets
defaultFov(b, width) ==
    IF b = "responsive"
    THEN IF width < 640 THEN MOBILE_FOV ELSE DESKTOP_FOV
    ELSE DEFAULT_FOV

\* revertView with position.add in place of position.set
revertViewAdd(b, width, ref, cam, ctl) ==
    IF ~ref THEN [ camera |-> cam, controls |-> ctl ]
    ELSE [ camera   |-> [ fov |-> defaultFov(b, width),
                          position |-> add(cam.position, INITIAL_CAMERA_POSITION) ],
           controls |-> [ctl EXCEPT !.target = INITIAL_TARGET] ]

\* ArrowControls.revertView: the new camera and controls
revertView(b, width, ref, cam, ctl) ==
    IF ~ref THEN [ camera |-> cam, controls |-> ctl ]
    ELSE [ camera   |-> [ fov |-> defaultFov(b, width),
                          position |-> INITIAL_CAMERA_POSITION ],
           controls |-> [ctl EXCEPT !.target = INITIAL_TARGET] ]

----------------------------------------------------------------------------
\* Mount

\* the initial FOV effect of App: the new value of App state `fov`
initialFov(width) == IF width < 640 THEN MOBILE_FOV ELSE DESKTOP_FOV

\* <Canvas camera={{ fov, position: INITIAL_CAMERA_POSITION }}>
canvasCamera(b, fovState) ==
    [ fov      |-> IF b = "responsive" THEN fovState ELSE DEFAULT_FOV,
      position |-> INITIAL_CAMERA_POSITION ]

\* <OrbitControls>: a new controls object, its target at the origin
orbitControls == [ target |-> <<0, 0, 0>> ]

\* a viewer mount that takes up the camera and controls of the viewer before it
mountViewReused(b, fovState, cam, ctl) ==
    IF cam # null THEN [ camera |-> cam, controls |-> ctl ]
    ELSE [ camera |-> canvasCamera(b, fovState), controls |-> orbitControls ]

\* the viewer branch of App renders a new Canvas and OrbitControls: the camera
\* and controls of the mount, whatever those of the viewer before it (cam, ctl)
mountView(b, fovState, cam, ctl) ==
    [ camera |-> canvasCamera(b, fovState), controls |-> orbitControls ]

\* the container the touch listeners go on exists in the responsive build
hasContainer(b) == b = "responsive"

\* target.addEventListener(type, handler): the handlers of that type on target
addEventListener(n) == n + 1

\* an effect cleanup that leaves the handler registered
removeEventListenerSkipped(n) == n

\* target.removeEventListener(type, handler)
removeEventListener(n) == n - 1

----------------------------------------------------------------------------
\* State machine

\* window.location.pathname when the page loads, in Spec, as its pieces
\* between "/": "/", "/viewer/aurora", "/viewer/unknown_scene"
LoadPaths == { <<"", "">>, <<"", "viewer", "aurora">>, <<"", "viewer", "unknown_scene">> }

\* window.location.pathname when the page loads, in SpecRouter:
\* "/", "/viewer", "/viewer/", "/viewer/<id>", "//viewer//<id>",
\* "/viewer/<id>/extra", "/scenes/<id>", "/scenes/viewer/<id>"
InitialPaths ==
    { <<"", "">>, <<"", "viewer">>, <<"", "viewer", "">> }
    \cup { <<"", "viewer", id>> : id \in CandidateIds }
    \cup { <<"", "", "viewer", "", id>> : id \in {"aurora", "not_a_scene"} }
    \cup { <<"", "viewer", id, "extra">> : id \in {"aurora"} }
    \cup { <<"", "scenes", id>> : id \in {"aurora", "viewer"} }
    \cup { <<"", "scenes", "viewer", id>> : id \in {"aurora"} }

\* the buttons' rotate(angleX, angleY) calls, one step being one quarter turn
ButtonRotations == { <<0, 1>>, <<1, 0>>, <<-1, 0>>, <<0, -1>> }

\* the buttons' zoom(factor) calls
ButtonZooms == { -5, 5 }

\* the page after construction, before the mount effects of App have run
Loaded(paths) ==
    /\ build \in Builds
    /\ innerWidth \in Widths
    /\ pathname \in paths
    /\ historyLength = InitialHistoryLength
    /\ pageLoads = 1
    /\ navCount = 0
    /\ selected = null
    /\ fov = IF build = "responsive" THEN DESKTOP_FOV ELSE DEFAULT_FOV
    /\ camera = null
    /\ controls = null
    /\ controlsRef = FALSE
    /\ initialTouchDistance = NoDistance
    /\ wheelListeners = 0
    /\ touchListeners = 0
    /\ lastOp = "init"
    /\ lastTouches = <<>>

Init == Loaded(LoadPaths)

InitRouter == Loaded(InitialPaths)

Ran(op) == lastOp' = op /\ UNCHANGED lastTouches

\* the two mount effects of App
AppMount ==
    /\ lastOp = "init"
    /\ selected' = loadScene(build, pathname, selected)
    /\ fov' = IF build = "responsive" THEN initialFov(innerWidth) ELSE fov
    /\ Ran("load")
    /\ UNCHANGED <<build, innerWidth, pathname, historyLength, pageLoads, navCount,
                   camera, controls, controlsRef, initialTouchDistance,
                   wheelListeners, touchListeners>>

\* the canvas mounts its children: camera, FovZoomHandler, OrbitControls
CanvasMount ==
    /\ selected # null
    /\ ~controlsRef
    /\ LET r == mountView(build, fov, camera, controls) IN
         /\ camera' = r.camera
         /\ controls' = r.controls
    /\ controlsRef' = TRUE
    /\ initialTouchDistance' = NoDistance
    /\ wheelListeners' = addEventListener(wheelListeners)
    /\ touchListeners' = IF hasContainer(build) THEN addEventListener(touchListeners)
                         ELSE touchListeners
    /\ Ran(IF camera = null THEN "mount" ELSE "remount")
    /\ UNCHANGED <<build, innerWidth, pathname, historyLength, pageLoads, navCount,
                   selected, fov>>

\* a click on a gallery card
SelectItem(id) ==
    /\ lastOp # "init"
    /\ selected = null
    /\ LET r == selectItem(makeScene(id), History) IN
         /\ selected' = r.selected
         /\ pathname' = r.history.pathname
         /\ historyLength' = r.history.length
         /\ pageLoads' = r.history.pageLoads
    /\ navCount' = navCount + 1
    /\ Ran("selectItem")
    /\ UNCHANGED <<build, innerWidth, fov, camera, controls, controlsRef,
                   initialTouchDistance, wheelListeners, touchListeners>>

\* a click on the back button; the viewer unmounts, its effects clean up
GoHome ==
    /\ selected # null
    /\ LET r == goHome(History) IN
         /\ selected' = r.selected
         /\ pathname' = r.history.pathname
         /\ historyLength' = r.history.length
         /\ pageLoads' = r.history.pageLoads
    /\ navCount' = navCount + 1
    /\ controlsRef' = FALSE
    /\ wheelListeners' = IF controlsRef THEN removeEventListener(wheelListeners)
                         ELSE wheelListeners
    /\ touchListeners' = IF controlsRef /\ hasContainer(build)
                         THEN removeEventListener(touchListeners) ELSE touchListeners
    /\ lastOp' = "goHome"
    /\ lastTouches' = <<>>
    /\ UNCHANGED <<build, innerWidth, fov, camera, controls, initialTouchDistance>>

\* the user resizes the window
Resize(width) ==
    /\ lastOp # "init"
    /\ width # innerWidth
    /\ innerWidth' = width
    /\ UNCHANGED <<build, pathname, historyLength, pageLoads, navCount, selected, fov,
                   camera, controls, controlsRef, initialTouchDistance,
                   wheelListeners, touchListeners, lastOp, lastTouches>>

\* a wheel event on window
Wheel(deltaY) ==
    /\ lastOp # "init"
    /\ camera' = IF wheelListeners > 0 THEN handleWheel(build, deltaY, camera) ELSE camera
    /\ Ran("wheel")
    /\ UNCHANGED <<build, innerWidth, pathname, historyLength, pageLoads, navCount,
                   selected, fov, controls, controlsRef, initialTouchDistance,
                   wheelListeners, touchListeners>>

\* the container of the touch listeners is rendered
ContainerShown == selected # null /\ hasContainer(build)

\* one or more points are put down: e.touches grows
TouchStart(touches) ==
    /\ ContainerShown
    /\ Len(touches) > Len(lastTouches)
    /\ initialTouchDistance' =
          IF touchListeners > 0 THEN handleTouchStart(touches) ELSE initialTouchDistance
    /\ lastOp' = "touchstart"
    /\ lastTouches' = touches
    /\ UNCHANGED <<build, innerWidth, pathname, historyLength, pageLoads, navCount,
                   selected, fov, camera, controls, controlsRef,
                   wheelListeners, touchListeners>>

\* points move (or stay): e.touches keeps its length
TouchMove(touches) ==
    /\ ContainerShown
    /\ Len(touches) > 0
    /\ Len(touches) = Len(lastTouches)
    /\ IF touchListeners > 0
       THEN LET r == handleTouchMove(build, touches, camera, initialTouchDistance) IN
              /\ camera' = r.camera
              /\ initialTouchDistance' = r.initialTouchDistance
       ELSE UNCHANGED <<camera, initialTouchDistance>>
    /\ lastOp' = "touchmove"
    /\ lastTouches' = touches
    /\ UNCHANGED <<build, innerWidth, pathname, historyLength, pageLoads, navCount,
                   selected, fov, controls, controlsRef, wheelListeners, touchListeners>>

\* one or more points are lifted: e.touches, the points still down, shrinks
TouchEnd(touches) ==
    /\ ContainerShown
    /\ Len(touches) < Len(lastTouches)
    /\ initialTouchDistance' =
          IF touchListeners > 0 THEN handleTouchEnd(initialTouchDistance)
          ELSE initialTouchDistance
    /\ lastOp' = "touchend"
    /\ lastTouches' = touches
    /\ UNCHANGED <<build, innerWidth, pathname, historyLength, pageLoads, navCount,
                   selected, fov, camera, controls, controlsRef,
                   wheelListeners, touchListeners>>

\* the buttons of ArrowControls, rendered while a scene is selected
RotateButton(angleX, angleY) ==
    /\ selected # null
    /\ camera' = rotate(angleX, angleY, controlsRef, camera, controls)
    /\ Ran("rotate")
    /\ UNCHANGED <<build, innerWidth, pathname, historyLength, pageLoads, navCount,
                   selected, fov, controls, controlsRef, initialTouchDistance,
                   wheelListeners, touchListeners>>

ZoomButton(factor) ==
    /\ selected # null
    /\ camera' = zoom(factor, controlsRef, camera)
    /\ Ran("zoom")
    /\ UNCHANGED <<build, innerWidth, pathname, historyLength, pageLoads, navCount,
                   selected, fov, controls, controlsRef, initialTouchDistance,
                   wheelListeners, touchListeners>>

RevertButton ==
    /\ selected # null
    /\ LET r == revertView(build, innerWidth, controlsRef, camera, controls) IN
         /\ camera' = r.camera
         /\ controls' = r.controls
    /\ Ran("revertView")
    /\ UNCHANGED <<build, innerWidth, pathname, historyLength, pageLoads, navCount,
                   selected, fov, controlsRef, initialTouchDistance,
                   wheelListeners, touchListeners>>

\* the first n entries of the scene list
Cards(n) == { SCENES(build)[i] : i \in 1..Min(n, Len(SCENES(build))) }

Next ==
    \/ AppMount
    \/ CanvasMount
    \/ \E id \in Cards(MaxCard) : navCount < MaxNav /\ SelectItem(id)
    \/ navCount < MaxNav /\ GoHome
    \/ \E width \in Widths : Resize(width)
    \/ \E deltaY \in WheelDeltas : Wheel(deltaY)
    \/ \E touches \in TouchLists : TouchStart(touches)
    \/ \E touches \in TouchLists : TouchMove(touches)
    \/ \E touches \in TouchLists : TouchEnd(touches)
    \/ \E r \in ButtonRotations : RotateButton(r[1], r[2])
    \/ \E factor \in ButtonZooms : ZoomButton(factor)
    \/ RevertButton

Spec == Init /\ [][Next]_vars

\* the router alone: every load path, every card, longer navigation
NextRouter ==
    \/ AppMount
    \/ CanvasMount
    \/ \E id \in Range(SCENES(build)) : navCount < MaxRouterNav /\ SelectItem(id)
    \/ navCount < MaxRouterNav /\ GoHome

SpecRouter == InitRouter /\ [][NextRouter]_vars

----------------------------------------------------------------------------
\* Properties

\* C1: in every state with a mounted camera, whatever wheel events, pinch
\* moves, zoom, rotate and revert presses led to it, the camera's field of
\* view lies in [30, 100].
C1_FovInRange == camera # null => (30 <= camera.fov /\ camera.fov <= 100)

\* a wheel event has pushed the field of view onto the upper bound
C1_Witness == camera # null /\ controlsRef /\ lastOp = "wheel" /\ camera.fov = 100

\* the first non-empty piece of path is "viewer" and the second non-empty
\* piece is x
Routes(path, x) ==
    /\ x # ""
    /\ \E i, j \in DOMAIN path :
         /\ i < j
         /\ path[i] = "viewer"
         /\ path[j] = x
         /\ \A k \in 1..(j - 1) : k # i => path[k] = ""

\* C2: right after load, scene X is selected exactly when the first non-empty
\* path segment is "viewer" and the second non-empty segment X is a known id;
\* for every other path nothing is selected.
C2_LoadSelection ==
    lastOp = "load" =>
        /\ \A x \in CandidateIds :
             (selected # null /\ selected.id = x)
                <=> (Routes(pathname, x) /\ x \in Range(SCENES(build)))
        /\ selected # null => selected.id \in CandidateIds

\* "//viewer//aurora" has been loaded and selects aurora
C2_Witness ==
    /\ lastOp = "load"
    /\ pathname = <<"", "", "viewer", "", "aurora">>
    /\ selected # null
    /\ selected.id = "aurora"

\* C3: once an in-app navigation has run, the path is "/viewer/<id>" exactly
\* when scene id is selected and "/" exactly when nothing is selected; every
\* navigation has pushed exactly one history entry and none has loaded a
\* document.
C3_PathMatchesSelection ==
    navCount > 0 =>
        /\ \A id \in CandidateIds :
             (pathname = <<"", "viewer", id>>) <=> (selected # null /\ selected.id = id)
        /\ (pathname = <<"", "">>) <=> (selected = null)
        /\ historyLength = InitialHistoryLength + navCount
        /\ pageLoads = 1

\* a scene has been selected again after a return to the gallery
C3_Witness ==
    /\ navCount >= 3
    /\ selected # null
    /\ selected.id = "canyon"
    /\ pathname = <<"", "viewer", "canyon">>

FaceNames == {"right", "left", "top", "bottom", "front", "back"}

\* path p is a file directly under /scenes/<id>/
UnderScene(p, id) == Len(p) = 4 /\ SubSeq(p, 1, 3) = <<"", "scenes", id>> /\ p[4] # ""

\* C4: findItemById returns a descriptor exactly for the ids of the scene
\* list; the descriptor carries the id, exactly the six face paths and a
\* layout path, all under /scenes/<id>/; for every other id it returns null,
\* and a load that resolves nothing leaves history, camera and controls alone.
C4_Resolve ==
    /\ \A id \in CandidateIds :
         LET r == findItemById(build, id) IN
         IF id \in Range(SCENES(build))
         THEN /\ r # null
              /\ r.id = id
              /\ DOMAIN r.faces = FaceNames
              /\ \A f \in FaceNames : UnderScene(r.faces[f], id)
              /\ UnderScene(r.layout, id)
              /\ Cardinality({ r.faces[f] : f \in FaceNames } \cup {r.layout}) = 7
         ELSE r = null
    /\ (lastOp = "load" /\ selected # null) =>
          selected = findItemById(build, selected.id)
    /\ (lastOp = "load" /\ selected = null) =>
          /\ historyLength = InitialHistoryLength
          /\ navCount = 0
          /\ camera = null
          /\ controls = null

\* the load effect has resolved "canyon" in the build that knows it
C4_Witness ==
    /\ lastOp = "load"
    /\ build = "fixed"
    /\ selected # null
    /\ selected.id = "canyon"
    /\ selected.faces.top = <<"", "scenes", "canyon", "top.png">>

\* C5: from every view state with the controls attached, revertView applied
\* twice gives the camera and controls that revertView applied once gives.
C5_RevertIdempotent ==
    controlsRef =>
        LET once  == revertView(build, innerWidth, controlsRef, camera, controls)
            twice == revertView(build, innerWidth, controlsRef, once.camera, once.controls)
        IN  twice = once

\* revert has run on an attached camera
C5_Witness ==
    /\ controlsRef
    /\ lastOp = "revertView"
    /\ camera.position = INITIAL_CAMERA_POSITION
    /\ camera.fov = defaultFov(build, innerWidth)

Clamped(x) == IF x < 30 THEN 30 ELSE IF x > 100 THEN 100 ELSE x

\* C7: a touchmove with exactly two points at distance d, while a distance is
\* recorded, changes the field of view by (recorded - d) * 0.15, clamped, and
\* records d; so a touchmove at the recorded distance leaves the field of
\* view unchanged.
C7_PinchIncremental ==
    [][ ( /\ lastOp' = "touchmove"
          /\ Len(lastTouches') = 2
          /\ touchListeners > 0
          /\ initialTouchDistance # NoDistance )
        => LET d == getDistance(lastTouches') IN
           /\ camera'.fov = Clamped(camera.fov + ((initialTouchDistance - d) * 15) \div 100)
           /\ camera'.position = camera.position
           /\ initialTouchDistance' = d
           /\ (d = initialTouchDistance => camera' = camera) ]_vars

\* a pinch from distance 500 to 400 has raised the field of view from 70 to 85
C7_Witness ==
    /\ lastOp = "touchmove"
    /\ lastTouches = <<P2, P1>>
    /\ initialTouchDistance = 400
    /\ fov = 70
    /\ camera # null
    /\ camera.fov = 85

\* C8: touchend clears the recorded distance, a touchstart with other than
\* two points leaves it cleared, a touchmove while it is cleared changes
\* neither the camera nor the record, and only a touchstart with exactly two
\* points records a distance again.
C8_TouchEndClears ==
    [][ /\ (lastOp' = "touchend" /\ touchListeners > 0)
              => initialTouchDistance' = NoDistance
        /\ (lastOp' = "touchstart" /\ touchListeners > 0 /\ Len(lastTouches') # 2)
              => initialTouchDistance' = NoDistance
        /\ (lastOp' = "touchmove" /\ initialTouchDistance = NoDistance)
              => (camera' = camera /\ initialTouchDistance' = NoDistance)
        /\ (initialTouchDistance = NoDistance /\ initialTouchDistance' # NoDistance)
              => (lastOp' = "touchstart" /\ Len(lastTouches') = 2) ]_vars

\* a two-point touchmove has been delivered to the mounted viewer while no
\* distance was recorded, and the camera still has its mount-time field of view
C8_Witness ==
    /\ lastOp = "touchmove"
    /\ Len(lastTouches) = 2
    /\ touchListeners > 0
    /\ initialTouchDistance = NoDistance
    /\ camera # null
    /\ camera.fov = fov

\* C9: rotate, zoom and revertView called while controlsRef.current is not
\* set change neither the camera nor the controls.
C9_UnattachedNoEffect ==
    [][ (lastOp' \in {"rotate", "zoom", "revertView"} /\ ~controlsRef)
        => (camera' = camera /\ controls' = controls /\ ~controlsRef') ]_vars

\* a button has been pressed between the selection of a scene and the mount
\* of its canvas
C9_Witness ==
    /\ lastOp \in {"rotate", "zoom", "revertView"}
    /\ selected # null
    /\ ~controlsRef

DistSq(v, w) ==
    (v[1] - w[1]) * (v[1] - w[1]) + (v[2] - w[2]) * (v[2] - w[2])
        + (v[3] - w[3]) * (v[3] - w[3])

\* C10: zoom by button, wheel or pinch leaves camera position and orbit
\* target unchanged; rotate leaves field of view and orbit target unchanged
\* and preserves the distance from camera to target; only revertView (and the
\* mount that creates them) sets position or target.
C10_Frame ==
    [][ camera # null =>
        /\ lastOp' \in {"zoom", "wheel", "touchmove"}
              => (camera'.position = camera.position /\ controls' = controls)
        /\ lastOp' = "rotate"
              => /\ camera'.fov = camera.fov
                 /\ controls' = controls
                 /\ DistSq(camera'.position, controls'.target)
                       = DistSq(camera.position, controls.target)
        /\ lastOp' \notin {"revertView", "mount", "remount"}
              => /\ controls' = controls
                 /\ DistSq(camera'.position, controls'.target)
                       = DistSq(camera.position, controls.target) ]_vars

\* a rotate press has moved a zoomed camera
C10_Witness ==
    /\ controlsRef
    /\ lastOp = "rotate"
    /\ camera.position # INITIAL_CAMERA_POSITION
    /\ camera.fov = 30

\* zoom(factor) arguments tried at the bounds: the buttons', zero, and two
\* that overshoot the whole range
ZoomDeltas == {-150, -5, 0, 5, 150}

\* C11: at field of view 100 a zoom or wheel delta >= 0 leaves it at 100, at
\* 30 a delta <= 0 leaves it at 30; so a delta that has reached a bound has
\* no further effect when repeated.
C11_Saturates ==
    controlsRef =>
        /\ \A d \in ZoomDeltas :
             LET once == zoom(d, controlsRef, camera) IN
             /\ (camera.fov = 100 /\ d >= 0) => once.fov = 100
             /\ (camera.fov = 30 /\ d <= 0) => once.fov = 30
             /\ (once.fov = 100 /\ d >= 0) => zoom(d, controlsRef, once) = once
             /\ (once.fov = 30 /\ d <= 0) => zoom(d, controlsRef, once) = once
        /\ \A deltaY \in WheelDeltas \cup {0} :
             LET once == handleWheel(build, deltaY, camera) IN
             /\ (camera.fov = 100 /\ deltaY >= 0) => once.fov = 100
             /\ (camera.fov = 30 /\ deltaY <= 0) => once.fov = 30
             /\ (once.fov = 100 /\ deltaY >= 0) => handleWheel(build, deltaY, once) = once
             /\ (once.fov = 30 /\ deltaY <= 0) => handleWheel(build, deltaY, once) = once

\* a zoom button has been pressed with the field of view on the lower bound
C11_Witness ==
    /\ controlsRef
    /\ lastOp = "zoom"
    /\ camera.fov = 30
    /\ camera.position # INITIAL_CAMERA_POSITION

\* C12: while the touch handlers are registered, a distance is recorded only
\* while exactly two points are down (and is the distance of those two); it
\* is cleared by every touchend and whenever the number of points down leaves
\* two; a touchmove changes the camera only with exactly two points down and
\* a distance recorded.
C12_PinchState ==
    [][ /\ (touchListeners' > 0 /\ initialTouchDistance' # NoDistance)
              => /\ Len(lastTouches') = 2
                 /\ initialTouchDistance' = getDistance(lastTouches')
        /\ (touchListeners > 0 /\ lastOp' = "touchend" /\ lastTouches' # lastTouches)
              => initialTouchDistance' = NoDistance
        /\ (touchListeners > 0 /\ touchListeners' > 0
               /\ Len(lastTouches) = 2 /\ Len(lastTouches') # 2)
              => initialTouchDistance' = NoDistance
        /\ (lastOp' = "touchmove" /\ camera' # camera)
              => /\ Len(lastTouches') = 2
                 /\ initialTouchDistance # NoDistance
                 /\ touchListeners > 0 ]_vars

\* the third of three points has been lifted: two points are down and no
\* distance is recorded
C12_Witness ==
    /\ touchListeners > 0
    /\ lastOp = "touchend"
    /\ Len(lastTouches) = 2
    /\ initialTouchDistance = NoDistance

\* C13: at most one wheel listener and one set of touch listeners is
\* registered at any time, exactly while a viewer is mounted (the touch
\* listeners in the build that has them); a wheel or touch event delivered
\* while no viewer is mounted changes no camera.
C13_ListenersScoped ==
    [][ /\ wheelListeners' <= 1
        /\ touchListeners' <= 1
        /\ (wheelListeners' = 1) <=> controlsRef'
        /\ (touchListeners' = 1) <=> (controlsRef' /\ build = "responsive")
        /\ (~controlsRef /\ lastOp' \in {"wheel", "touchstart", "touchmove", "touchend"})
              => (camera' = camera /\ initialTouchDistance' = initialTouchDistance) ]_vars

\* a wheel event has been delivered in the gallery after a viewer, whose
\* camera had been zoomed, was unmounted
C13_Witness ==
    /\ lastOp = "wheel"
    /\ selected = null
    /\ ~controlsRef
    /\ wheelListeners = 0
    /\ camera # null
    /\ camera.fov = 100

\* C14: every mount of a viewer, whatever zooms and rotations the viewer
\* before it has seen, starts with the default field of view (60 in the fixed
\* build, the App state fov, 70 or 85, in the responsive build), the camera
\* at (0, 0, 0.1), the orbit target at the origin and no pinch distance.
C14_FreshViewOnMount ==
    [][ (controlsRef' /\ ~controlsRef)
        => /\ camera'.position = <<0, 0, 1>>
           /\ controls'.target = <<0, 0, 0>>
           /\ camera'.fov = (IF build = "fixed" THEN 60 ELSE fov)
           /\ fov \in {60, 70, 85}
           /\ initialTouchDistance' = NoDistance ]_vars

\* a scene has been selected and mounted after a return to the gallery from
\* a viewer that had a camera
C14_Witness ==
    /\ lastOp = "remount"
    /\ navCount = 2
    /\ controlsRef
    /\ camera = canvasCamera(build, fov)
    /\ pathname = <<"", "viewer", "aurora">>

Cos(k) == <<1, 0, -1, 0>>[(k % 4) + 1]
Sin(k) == <<0, 1, 0, -1>>[(k % 4) + 1]

\* the rotation by k quarter turns about the world up-axis (0, 1, 0)
Yaw(k, v) ==
    << v[1] * Cos(k) + v[3] * Sin(k), v[2], v[3] * Cos(k) - v[1] * Sin(k) >>

\* the rotation by k quarter turns about the world right-axis (1, 0, 0)
Pitch(k, v) ==
    << v[1], v[2] * Cos(k) - v[3] * Sin(k), v[2] * Sin(k) + v[3] * Cos(k) >>

\* orbit targets the position is taken relative to: the origin the viewer
\* keeps, and two others for the function on its own
Targets == { <<0, 0, 0>>, <<1, 0, 0>>, <<0, 2, -1>> }

====
